---- MODULE Spec2Model ----
(***************************************************************************)
(* trace-cmd mem (tracecmd/trace-mem.c): per-function accounting of the    *)
(* kmem allocation events of a trace, and the report sorted by waste.      *)
(*                                                                         *)
(* The func_descr objects live in a heap (funcs), addressed by their       *)
(* index; a struct func_descr * is such an index, NULL is 0.  A hash       *)
(* bucket's chain (head pointer plus the next fields) is the sequence of   *)
(* its elements, head first.                                               *)
(***************************************************************************)
EXTENDS Integers, Sequences, FiniteSets, TLC

(* ------------------------------ bounds -------------------------------- *)

\* Number of records read from the trace before the stream ends.
MaxEvents == 4

\* The same, for the runs over the wider choice of sizes (SpecReplay).
MaxReplay == 3

\* Width of unsigned long (the counters of struct func_descr).  The build is
\* LP64; the counters are modelled narrower, still wide enough that a run of
\* MaxEvents events cannot carry out of them by accumulation alone.
ULONG_BITS == 20

\* Width of int and unsigned int (alloc and req of process_kmalloc).
INT_BITS == 10

\* log2 of the number of hash buckets, modelled small so that chains hold
\* more than one element.
HASH_BITS == 1

ULONG_MOD == 2 ^ ULONG_BITS
INT_MOD == 2 ^ INT_BITS

HASH_SIZE == 2 ^ HASH_BITS
HASH_MASK == HASH_SIZE - 1

NULL == 0

(* ------------------------ C integer conversions ----------------------- *)

\* unsigned long long -> unsigned int (req = val)
ToUInt(val) == val % INT_MOD

\* unsigned long long -> int (alloc = val)
ToInt(val) ==
    LET low == val % INT_MOD
    IN  IF low >= INT_MOD \div 2 THEN low - INT_MOD ELSE low

\* int or unsigned int -> unsigned long (the usual arithmetic conversions
\* of "unsigned long += int": sign extension, then reduction modulo 2^w)
ToULong(v) == v % ULONG_MOD

\* printf("%ld") of an unsigned long: the same bits read as a signed long
ToLong(u) == IF u >= ULONG_MOD \div 2 THEN u - ULONG_MOD ELSE u

ULongAdd(a, b) == (a + b) % ULONG_MOD
ULongSub(a, b) == (a - b) % ULONG_MOD

(* ------------------------------ the trace ----------------------------- *)

\* The kmem events and the ids the trace file gives them (event->id).
KindNames == {"kmalloc", "kmalloc_node", "kfree",
              "kmem_cache_alloc", "kmem_cache_alloc_node", "kmem_cache_free"}

EventId == [kmalloc |-> 1, kmalloc_node |-> 2, kfree |-> 3,
            kmem_cache_alloc |-> 4, kmem_cache_alloc_node |-> 5,
            kmem_cache_free |-> 6]

AllocIds == {EventId.kmalloc, EventId.kmalloc_node,
             EventId.kmem_cache_alloc, EventId.kmem_cache_alloc_node}
FreeIds == {EventId.kfree, EventId.kmem_cache_free}

\* The id of an event of the trace that is no kmem event (sched_switch, ...).
OtherIds == {7}

\* The allocation events of the trace, each with the call-site address its
\* records carry: two addresses lie in one function, two kinds of event come
\* from one address.
AllocShapes == {<<EventId.kmalloc, 10>>, <<EventId.kmalloc_node, 11>>,
                <<EventId.kmem_cache_alloc, 20>>,
                <<EventId.kmem_cache_alloc_node, 20>>}
CallSites == {s[2] : s \in AllocShapes}

\* Pointer values (both hash to one bucket) and (bytes_req, bytes_alloc)
\* pairs carried by the records.  The second pair has a bytes_alloc whose
\* low INT_BITS bits read as the int -2.
Ptrs == {1, 5}
Sizes == {<<1, 2>>, <<3, INT_MOD - 2>>}

\* Sizes that fit an int, with those of the end-to-end scenario and one
\* that grants less than was requested.
ReplaySizes == {<<100, 128>>, <<50, 64>>, <<3, 2>>}

\* tep_find_function(): the name of the function an address lies in, always
\* the same reference for the same function.
tep_find_function(callsite) == IF callsite < 20 THEN 1 ELSE 5

Funcs == {tep_find_function(c) : c \in CallSites}

AllocRecords(sizes) ==
    {[type |-> a[1], call_site |-> a[2], bytes_req |-> s[1],
      bytes_alloc |-> s[2], ptr |-> p] :
        a \in AllocShapes, s \in sizes, p \in Ptrs}

FreeRecords ==
    {[type |-> t, call_site |-> 0, bytes_req |-> 0, bytes_alloc |-> 0,
      ptr |-> p] : t \in FreeIds, p \in Ptrs}

\* A record of another event: its payload, read as if it were a kmem
\* record, would name a call site, sizes and a pointer.
OtherRecords ==
    {[type |-> t, call_site |-> 10, bytes_req |-> 1, bytes_alloc |-> 2,
      ptr |-> 1] : t \in OtherIds}

Records == AllocRecords(Sizes) \cup FreeRecords \cup OtherRecords
ReplayRecords == AllocRecords(ReplaySizes) \cup FreeRecords \cup OtherRecords

(* ------------------------------- state -------------------------------- *)

VARIABLES
    pevent,                     \* the events the trace file defines
    kmalloc_type, kmalloc_node_type, kfree_type,
    kmem_cache_alloc_type, kmem_cache_alloc_node_type, kmem_cache_free_type,
    funcs,                      \* heap of struct func_descr
    func_hash,                  \* bucket -> chain of func_descr pointers
    ptr_hash,                   \* bucket -> chain of struct ptr_descr
    func_count,
    func_list,                  \* NULL, or the array sort_list() fills
    report,                     \* the rows print_list() has printed
    pc,                         \* where do_trace_mem() is
    nevents,                    \* records read so far
    last,                       \* the record read last (history)
    stale,                      \* ptr_descr contents overwritten while live (history)
    nomem,                      \* zalloc() has returned NULL for a request (history)
    hist                        \* the decoded events applied so far (history)

types == <<kmalloc_type, kmalloc_node_type, kfree_type,
           kmem_cache_alloc_type, kmem_cache_alloc_node_type,
           kmem_cache_free_type>>
tables == <<funcs, func_hash, ptr_hash, func_count>>
vars == <<pevent, types, tables, func_list, report, pc, nevents, last,
          stale, nomem, hist>>

Buckets == 0 .. (HASH_SIZE - 1)

\* make_key(): the bytes of the key xor-folded into an int, then hashed by
\* trace_hash().  A key below 2^32 folds to itself; the hash is a fixed
\* function of the fold, and the tables depend on it only through which
\* keys share a bucket, so the fold stands for its hash.
make_key(key) == key

\* calloc(1, sizeof(struct func_descr)) with func set
new_func_descr(func) ==
    [func |-> func, total_alloc |-> 0, total_req |-> 0, current_alloc |-> 0,
     current_req |-> 0, max_alloc |-> 0, max_req |-> 0, waste |-> 0,
     max_waste |-> 0]

\* calloc(1, sizeof(struct ptr_descr)) with ptr set
new_ptr_descr(ptr) == [ptr |-> ptr, func |-> NULL, alloc |-> 0, req |-> 0]

Min(S) == CHOOSE x \in S : \A y \in S : x <= y

(* --------------------------- call-site table -------------------------- *)

\* key & HASH_MASK
Bucket(key) == make_key(key) % (HASH_MASK + 1)

\* Slip: only the head of the chain is compared with func.
find_func_head(func) ==
    LET chain == func_hash[Bucket(func)]
    IN  IF chain # <<>> /\ funcs[chain[1]].func = func THEN chain[1] ELSE NULL

find_func(func) ==
    LET chain == func_hash[Bucket(func)]
        hits == {i \in 1 .. Len(chain) : funcs[chain[i]].func = func}
    IN  IF hits = {} THEN NULL ELSE chain[Min(hits)]

\* Slip: the new func_descr is not linked into its chain.
create_func_unlinked(func) ==
    LET funcd == Len(funcs) + 1
    IN  [funcs |-> Append(funcs, new_func_descr(func)),
         func_hash |-> func_hash,
         func_count |-> func_count + 1,
         funcd |-> funcd]

\* Slip: func_count is not counted up.
create_func_no_count(func) ==
    LET funcd == Len(funcs) + 1
    IN  [funcs |-> Append(funcs, new_func_descr(func)),
         func_hash |-> [func_hash EXCEPT ![Bucket(func)] = <<funcd>> \o @],
         func_count |-> func_count,
         funcd |-> funcd]

\* The heap, the table and the count after create_func(func), and the new
\* object's address (funcd).  zalloc() has succeeded.
create_func(func) ==
    LET funcd == Len(funcs) + 1
    IN  [funcs |-> Append(funcs, new_func_descr(func)),
         func_hash |-> [func_hash EXCEPT ![Bucket(func)] = <<funcd>> \o @],
         func_count |-> func_count + 1,
         funcd |-> funcd]

(* ------------------------ live-allocation table ----------------------- *)

\* Slip: the key of the ptr_descr is not compared, the head of the chain is
\* taken.
find_ptr_any(ptr) ==
    LET chain == ptr_hash[Bucket(ptr)]
    IN  IF chain = <<>> THEN NULL ELSE 1

\* Slip: only the head of the chain is compared with ptr.
find_ptr_head(ptr) ==
    LET chain == ptr_hash[Bucket(ptr)]
    IN  IF chain # <<>> /\ chain[1].ptr = ptr THEN 1 ELSE NULL

\* Position in its chain of the first ptr_descr of ptr; NULL if there is none.
find_ptr(ptr) ==
    LET chain == ptr_hash[Bucket(ptr)]
        hits == {i \in 1 .. Len(chain) : chain[i].ptr = ptr}
    IN  IF hits = {} THEN NULL ELSE Min(hits)

\* The table after create_ptr(ptr): the new ptr_descr is the head of its chain.
create_ptr(ptr) ==
    [ptr_hash EXCEPT ![Bucket(ptr)] = <<new_ptr_descr(ptr)>> \o @]

\* The table after remove_ptr(ptr): the first ptr_descr of ptr is unlinked.
remove_ptr(ptr) ==
    LET chain == ptr_hash[Bucket(ptr)]
        hits == {i \in 1 .. Len(chain) : chain[i].ptr = ptr}
    IN  IF hits = {} THEN ptr_hash
        ELSE [ptr_hash EXCEPT ![Bucket(ptr)] =
                 SubSeq(chain, 1, Min(hits) - 1)
                 \o SubSeq(chain, Min(hits) + 1, Len(chain))]

(* ----------------------------- event applier -------------------------- *)

\* Slip: the high-water mark of the requested bytes is tested against
\* max_alloc.
add_kmalloc_stats_max_req_slip(fd, req, alloc) ==
    LET total_alloc == ULongAdd(fd.total_alloc, ToULong(alloc))
        total_req == ULongAdd(fd.total_req, ToULong(req))
        current_alloc == ULongAdd(fd.current_alloc, ToULong(alloc))
        current_req == ULongAdd(fd.current_req, ToULong(req))
        max_alloc == IF current_alloc > fd.max_alloc
                     THEN current_alloc ELSE fd.max_alloc
    IN  [fd EXCEPT
            !.total_alloc = total_alloc,
            !.total_req = total_req,
            !.current_alloc = current_alloc,
            !.current_req = current_req,
            !.max_alloc = max_alloc,
            !.max_req = IF current_req > max_alloc
                        THEN current_req ELSE fd.max_req]

\* Slip: max_alloc follows current_alloc down as well as up.
add_kmalloc_stats_max_follows(fd, req, alloc) ==
    LET total_alloc == ULongAdd(fd.total_alloc, ToULong(alloc))
        total_req == ULongAdd(fd.total_req, ToULong(req))
        current_alloc == ULongAdd(fd.current_alloc, ToULong(alloc))
        current_req == ULongAdd(fd.current_req, ToULong(req))
    IN  [fd EXCEPT
            !.total_alloc = total_alloc,
            !.total_req = total_req,
            !.current_alloc = current_alloc,
            !.current_req = current_req,
            !.max_alloc = current_alloc,
            !.max_req = IF current_req > fd.max_req
                        THEN current_req ELSE fd.max_req]

\* Slip: the lifetime totals are set to the sizes of the allocation, not
\* added to.
add_kmalloc_stats_total_set(fd, req, alloc) ==
    LET total_alloc == ToULong(alloc)
        total_req == ToULong(req)
        current_alloc == ULongAdd(fd.current_alloc, ToULong(alloc))
        current_req == ULongAdd(fd.current_req, ToULong(req))
    IN  [fd EXCEPT
            !.total_alloc = total_alloc,
            !.total_req = total_req,
            !.current_alloc = current_alloc,
            !.current_req = current_req,
            !.max_alloc = IF current_alloc > fd.max_alloc
                          THEN current_alloc ELSE fd.max_alloc,
            !.max_req = IF current_req > fd.max_req
                        THEN current_req ELSE fd.max_req]

\* add_kmalloc(): the statistics of funcd after the allocation.
add_kmalloc_stats(fd, req, alloc) ==
    LET total_alloc == ULongAdd(fd.total_alloc, ToULong(alloc))
        total_req == ULongAdd(fd.total_req, ToULong(req))
        current_alloc == ULongAdd(fd.current_alloc, ToULong(alloc))
        current_req == ULongAdd(fd.current_req, ToULong(req))
    IN  [fd EXCEPT
            !.total_alloc = total_alloc,
            !.total_req = total_req,
            !.current_alloc = current_alloc,
            !.current_req = current_req,
            !.max_alloc = IF current_alloc > fd.max_alloc
                          THEN current_alloc ELSE fd.max_alloc,
            !.max_req = IF current_req > fd.max_req
                        THEN current_req ELSE fd.max_req]

\* Slip: the granted size is recorded from req.
add_kmalloc_ptr_alloc_from_req(pd, funcd, req, alloc) ==
    [pd EXCEPT !.alloc = ToULong(req), !.req = ToULong(req), !.func = funcd]

\* Slip: the owner is set only when the ptr_descr is new.
add_kmalloc_ptr_keeps_owner(pd, funcd, req, alloc) ==
    [pd EXCEPT !.alloc = ToULong(alloc), !.req = ToULong(req),
               !.func = IF pd.func = NULL THEN funcd ELSE pd.func]

\* Slip: a ptr_descr that is reused adds the sizes to those it holds.
add_kmalloc_ptr_accumulates(pd, funcd, req, alloc) ==
    [pd EXCEPT !.alloc = ULongAdd(pd.alloc, ToULong(alloc)),
               !.req = ULongAdd(pd.req, ToULong(req)),
               !.func = funcd]

\* add_kmalloc(): the fields of the ptr_descr after the allocation.
add_kmalloc_ptr(pd, funcd, req, alloc) ==
    [pd EXCEPT !.alloc = ToULong(alloc), !.req = ToULong(req), !.func = funcd]

\* mem_func, mem_ptr: whether zalloc() in create_func(), create_ptr() gives
\* memory, should it be called.
add_kmalloc(func, ptr, req, alloc, mem_func, mem_ptr) ==
    LET found == find_func(func)
    IN  IF found = NULL /\ ~mem_func
        THEN \* create_func(): die("malloc")
             /\ pc' = "died"
             /\ nomem' = TRUE
             /\ UNCHANGED <<tables, stale>>
        ELSE LET cf == IF found = NULL THEN create_func(func)
                       ELSE [funcs |-> funcs, func_hash |-> func_hash,
                             func_count |-> func_count, funcd |-> found]
                 funcd == cf.funcd
                 pos == find_ptr(ptr)
                 key == Bucket(ptr)
             IN  /\ funcs' = [cf.funcs EXCEPT
                                 ![funcd] = add_kmalloc_stats(@, req, alloc)]
                 /\ func_hash' = cf.func_hash
                 /\ func_count' = cf.func_count
                 /\ IF pos = NULL /\ ~mem_ptr
                    THEN \* create_ptr(): die("malloc")
                         /\ pc' = "died"
                         /\ nomem' = TRUE
                         /\ UNCHANGED <<ptr_hash, stale>>
                    ELSE LET ph == IF pos = NULL THEN create_ptr(ptr)
                                   ELSE ptr_hash
                             at == IF pos = NULL THEN 1 ELSE pos
                         IN  /\ ptr_hash' =
                                  [ph EXCEPT ![key][at] =
                                      add_kmalloc_ptr(@, funcd, req, alloc)]
                             /\ stale' = IF pos = NULL THEN stale
                                         ELSE Append(stale, ptr_hash[key][pos])
                             /\ UNCHANGED <<pc, nomem>>

\* Slip: the free is taken off the lifetime totals as well.
remove_kmalloc_stats_totals(fd, pd) ==
    [fd EXCEPT !.current_alloc = ULongSub(fd.current_alloc, pd.alloc),
               !.current_req = ULongSub(fd.current_req, pd.req),
               !.total_alloc = ULongSub(fd.total_alloc, pd.alloc),
               !.total_req = ULongSub(fd.total_req, pd.req)]

\* remove_kmalloc(): the statistics of the owner after the free.
remove_kmalloc_stats(fd, pd) ==
    [fd EXCEPT !.current_alloc = ULongSub(fd.current_alloc, pd.alloc),
               !.current_req = ULongSub(fd.current_req, pd.req)]

remove_kmalloc(ptr) ==
    LET pos == find_ptr(ptr)
    IN  IF pos = NULL
        THEN UNCHANGED <<tables, stale, pc, nomem>>
        ELSE LET ptrd == ptr_hash[Bucket(ptr)][pos]
             IN  /\ funcs' = [funcs EXCEPT
                                 ![ptrd.func] = remove_kmalloc_stats(@, ptrd)]
                 /\ ptr_hash' = remove_ptr(ptr)
                 /\ UNCHANGED <<func_hash, func_count, stale, pc, nomem>>

\* The tep_format_field pointers of the kind are set: update_kmalloc() ...
\* update_kmem_cache_free() set them when the trace defines the event, and
\* leave them NULL when it does not.
Fields(name) == name \in pevent

\* fields: whether the four tep_format_field pointers handed in are set.
\* tep_read_number_field() stores nothing for a NULL field, so callsite, val
\* and ptr are then read as they lie on the stack: any values, a callsite
\* that tep_find_function() knows (add_kmalloc() takes what was read) or one
\* that it does not (find_func() takes strlen() of NULL).
process_kmalloc(record, fields, mem_func, mem_ptr) ==
    IF fields
    THEN LET callsite == record.call_site
             req == ToUInt(record.bytes_req)
             alloc == ToInt(record.bytes_alloc)
             ptr == record.ptr
             func == tep_find_function(callsite)
         IN  add_kmalloc(func, ptr, req, alloc, mem_func, mem_ptr)
    ELSE \/ \E r \in AllocRecords(Sizes) :
              add_kmalloc(tep_find_function(r.call_site), r.ptr,
                          ToUInt(r.bytes_req), ToInt(r.bytes_alloc),
                          mem_func, mem_ptr)
         \/ /\ pc' = "segv"
            /\ UNCHANGED <<tables, stale, nomem>>

\* field: whether the tep_format_field pointer handed in is set; ptr is
\* read as it lies on the stack when it is not.
process_kfree(record, field) ==
    IF field THEN remove_kmalloc(record.ptr)
    ELSE \E ptr \in Ptrs : remove_kmalloc(ptr)

\* Slip: the last test is missing, every record that is none of the first
\* five kinds goes to process_kfree().
process_record_no_last_test(record, mem_func, mem_ptr) ==
    LET type == record.type
    IN  IF type = kmalloc_type
        THEN process_kmalloc(record, Fields("kmalloc"), mem_func, mem_ptr)
        ELSE IF type = kmalloc_node_type
        THEN process_kmalloc(record, Fields("kmalloc_node"), mem_func,
                             mem_ptr)
        ELSE IF type = kfree_type
        THEN process_kfree(record, Fields("kfree"))
        ELSE IF type = kmem_cache_alloc_type
        THEN process_kmalloc(record, Fields("kmem_cache_alloc"), mem_func,
                             mem_ptr)
        ELSE IF type = kmem_cache_alloc_node_type
        THEN process_kmalloc(record, Fields("kmem_cache_alloc_node"),
                             mem_func, mem_ptr)
        ELSE process_kfree(record, Fields("kmem_cache_free"))

process_record(record, mem_func, mem_ptr) ==
    LET type == record.type
    IN  IF type = kmalloc_type
        THEN process_kmalloc(record, Fields("kmalloc"), mem_func, mem_ptr)
        ELSE IF type = kmalloc_node_type
        THEN process_kmalloc(record, Fields("kmalloc_node"), mem_func,
                             mem_ptr)
        ELSE IF type = kfree_type
        THEN process_kfree(record, Fields("kfree"))
        ELSE IF type = kmem_cache_alloc_type
        THEN process_kmalloc(record, Fields("kmem_cache_alloc"), mem_func,
                             mem_ptr)
        ELSE IF type = kmem_cache_alloc_node_type
        THEN process_kmalloc(record, Fields("kmem_cache_alloc_node"),
                             mem_func, mem_ptr)
        ELSE IF type = kmem_cache_free_type
        THEN process_kfree(record, Fields("kmem_cache_free"))
        ELSE UNCHANGED <<tables, stale, pc, nomem>>

(* ------------------------------- reporter ----------------------------- *)

func_cmp(fa, fb) ==
    IF fa.waste > fb.waste THEN -1
    ELSE IF fa.waste < fb.waste THEN 1
    ELSE 0

RECURSIVE Chains(_)
\* The func_descr pointers in the order sort_list() meets them: bucket h,
\* h + 1, ..., each chain from its head.
Chains(h) == IF h >= HASH_SIZE THEN <<>> ELSE func_hash[h] \o Chains(h + 1)

\* Slip: a waste below zero is reported as zero.
sort_list_waste_clamped(fd) ==
    [fd EXCEPT !.waste = IF fd.current_alloc < fd.current_req THEN 0
                         ELSE ULongSub(fd.current_alloc, fd.current_req),
               !.max_waste = IF fd.max_alloc < fd.max_req THEN 0
                             ELSE ULongSub(fd.max_alloc, fd.max_req)]

\* sort_list(): waste and max_waste of one func_descr.
sort_list_waste(fd) ==
    [fd EXCEPT !.waste = ULongSub(fd.current_alloc, fd.current_req),
               !.max_waste = ULongSub(fd.max_alloc, fd.max_req)]

\* The arrays qsort() may leave: the orders of list that func_cmp accepts.
qsort(list, heap) ==
    {p \in [1 .. Len(list) -> {list[i] : i \in 1 .. Len(list)}] :
        /\ \A i \in 1 .. Len(list) : \E j \in 1 .. Len(list) : p[j] = list[i]
        /\ \A i, j \in 1 .. Len(list) :
              i < j => func_cmp(heap[p[i]], heap[p[j]]) <= 0}

\* mem: whether zalloc() gives the memory of func_list.
sort_list(mem) ==
    LET order == Chains(0)
        met == IF Len(order) > func_count
               THEN SubSeq(order, 1, func_count + 1) ELSE order
        heap == [d \in DOMAIN funcs |->
                    IF \E i \in 1 .. Len(met) : met[i] = d
                    THEN sort_list_waste(funcs[d]) ELSE funcs[d]]
    IN  /\ pc = "read"
        /\ IF ~mem /\ Len(order) > 0 /\ func_count > 0
           THEN \* func_list[0] = funcd with func_list NULL
                /\ pc' = "segv"
                /\ nomem' = TRUE
                /\ UNCHANGED <<funcs, func_list>>
           ELSE IF Len(order) > func_count
           THEN \* die("more funcs than expected\n")
                /\ pc' = "died"
                /\ funcs' = heap
                /\ UNCHANGED <<func_list, nomem>>
           ELSE IF Len(order) < func_count
           THEN \* func_cmp() reads through a NULL element of func_list
                /\ pc' = "segv"
                /\ funcs' = heap
                /\ UNCHANGED <<func_list, nomem>>
           ELSE /\ pc' = "sorted"
                /\ funcs' = heap
                /\ func_list' \in qsort(order, heap)
                /\ UNCHANGED nomem
        /\ UNCHANGED <<pevent, types, func_hash, ptr_hash, func_count, report,
                       nevents, last, stale, hist>>

\* One row of print_list(): every number goes through "%ld".
print_row(fd) ==
    [func |-> fd.func,
     waste |-> ToLong(fd.waste),
     current_alloc |-> ToLong(fd.current_alloc),
     current_req |-> ToLong(fd.current_req),
     total_alloc |-> ToLong(fd.total_alloc),
     total_req |-> ToLong(fd.total_req),
     max_alloc |-> ToLong(fd.max_alloc),
     max_req |-> ToLong(fd.max_req),
     max_waste |-> ToLong(fd.max_waste)]

print_list ==
    /\ pc = "sorted"
    /\ report' = [i \in 1 .. func_count |-> print_row(funcs[func_list[i]])]
    /\ pc' = "done"
    /\ UNCHANGED <<pevent, types, tables, func_list, nevents, last, stale,
                   nomem, hist>>

(* ------------------------------ do_trace_mem -------------------------- *)

\* update_event(): the id of the event if the trace defines it, else the
\* int is left as it is.
update_event(name, id) == IF name \in pevent THEN EventId[name] ELSE id

\* update_kmalloc() ... update_kmem_cache_free()
update_events ==
    /\ pc = "start"
    /\ kmalloc_type' = update_event("kmalloc", kmalloc_type)
    /\ kmalloc_node_type' = update_event("kmalloc_node", kmalloc_node_type)
    /\ kfree_type' = update_event("kfree", kfree_type)
    /\ kmem_cache_alloc_type' =
          update_event("kmem_cache_alloc", kmem_cache_alloc_type)
    /\ kmem_cache_alloc_node_type' =
          update_event("kmem_cache_alloc_node", kmem_cache_alloc_node_type)
    /\ kmem_cache_free_type' =
          update_event("kmem_cache_free", kmem_cache_free_type)
    /\ pc' = "read"
    /\ UNCHANGED <<pevent, tables, func_list, report, nevents, last, stale,
                   nomem, hist>>

\* What the record is in the trace, whatever process_record() makes of it:
\* the event as the applier is to take it (requested an unsigned int, granted
\* an int).
EventOf(record) ==
    IF record.type \in AllocIds
    THEN [op |-> "allocate", site |-> tep_find_function(record.call_site),
          ptr |-> record.ptr, requested |-> ToUInt(record.bytes_req),
          granted |-> ToInt(record.bytes_alloc)]
    ELSE IF record.type \in FreeIds
    THEN [op |-> "free", site |-> 0, ptr |-> record.ptr, requested |-> 0,
          granted |-> 0]
    ELSE [op |-> "other", site |-> 0, ptr |-> 0, requested |-> 0,
          granted |-> 0]

\* The ids of the kinds the trace defines.
ResolvedIds == {EventId[name] : name \in pevent}

TypeIds == {kmalloc_type, kmalloc_node_type, kfree_type,
            kmem_cache_alloc_type, kmem_cache_alloc_node_type,
            kmem_cache_free_type}

\* One turn of the loop over tracecmd_read_next_data(): the stream holds at
\* most max records, drawn from records; zalloc() answers from mems.
read_record(records, max, mems) ==
    /\ pc = "read"
    /\ nevents < max
    /\ \E record \in records, mem_func, mem_ptr \in mems :
          /\ process_record(record, mem_func, mem_ptr)
          /\ last' = [op |-> EventOf(record).op, ptr |-> record.ptr,
                      known |-> record.type \in TypeIds,
                      resolved |-> record.type \in ResolvedIds]
          /\ hist' = Append(hist, EventOf(record))
    /\ nevents' = nevents + 1
    /\ UNCHANGED <<pevent, types, func_list, report>>

\* The program at the call of do_trace_mem(), given a trace file that
\* defines the kinds of one of traces.
Start(traces) ==
    /\ pevent \in traces
    /\ kmalloc_type = 0
    /\ kmalloc_node_type = 0
    /\ kfree_type = 0
    /\ kmem_cache_alloc_type = 0
    /\ kmem_cache_alloc_node_type = 0
    /\ kmem_cache_free_type = 0
    /\ funcs = <<>>
    /\ func_hash = [h \in Buckets |-> <<>>]
    /\ ptr_hash = [h \in Buckets |-> <<>>]
    /\ func_count = 0
    /\ func_list = <<>>
    /\ report = <<>>
    /\ pc = "start"
    /\ nevents = 0
    /\ last = [op |-> "none", ptr |-> 0, known |-> FALSE, resolved |-> FALSE]
    /\ stale = <<>>
    /\ nomem = FALSE
    /\ hist = <<>>

\* The trace defines the six kinds.
Init == Start({KindNames})

\* Bookkeeping memory is there whenever it is asked for.
ReadRecord == read_record(Records, MaxEvents, {TRUE})
ReadReplay == read_record(ReplayRecords, MaxReplay, {TRUE})
SortList == sort_list(TRUE)

Next == update_events \/ ReadRecord \/ SortList \/ print_list

Spec == Init /\ [][Next]_vars

\* The same program on sizes that fit an int, a wider choice of them.
NextReplay == update_events \/ ReadReplay \/ SortList \/ print_list

SpecReplay == Init /\ [][NextReplay]_vars

\* The same program when zalloc() may return NULL at any call.
ReadRecordOOM == read_record(Records, MaxReplay, BOOLEAN)
SortListOOM == \E mem \in BOOLEAN : sort_list(mem)

NextOOM == update_events \/ ReadRecordOOM \/ SortListOOM \/ print_list

SpecOOM == Init /\ [][NextOOM]_vars

\* The same program on traces that lack some of the kinds, and that hold
\* records whose common_type is 0.
PartialTraces == {KindNames \ {"kmalloc_node"},
                  KindNames \ {"kmem_cache_free"},
                  {"kmalloc", "kfree"}}

ZeroRecords ==
    {[type |-> 0, call_site |-> 10, bytes_req |-> 1, bytes_alloc |-> 2,
      ptr |-> 1]}

PartialRecords == Records \cup ZeroRecords

InitPartial == Start(PartialTraces)
ReadPartial == read_record(PartialRecords, MaxReplay, {TRUE})

NextPartial == update_events \/ ReadPartial \/ SortList \/ print_list

SpecPartial == InitPartial /\ [][NextPartial]_vars

(* ------------------------- reading the history ------------------------ *)

IsAlloc(h, i) == h[i].op = "allocate"
IsFreeOf(h, j, ptr) == h[j].op = "free" /\ h[j].ptr = ptr

\* The allocate events of h whose pointer no later event of h frees.
Outstanding(h) ==
    {i \in 1 .. Len(h) :
        /\ IsAlloc(h, i)
        /\ \A j \in (i + 1) .. Len(h) : ~IsFreeOf(h, j, h[i].ptr)}

\* Some allocate event of h names a pointer that is still live.
Collision(h) ==
    \E i, j \in 1 .. Len(h) :
        /\ i < j
        /\ IsAlloc(h, i) /\ IsAlloc(h, j) /\ h[i].ptr = h[j].ptr
        /\ \A k \in (i + 1) .. (j - 1) : ~IsFreeOf(h, k, h[i].ptr)

\* The allocate events of call site S in h.
AllocsOf(h, S) == {i \in 1 .. Len(h) : IsAlloc(h, i) /\ h[i].site = S}

RECURSIVE SumOver(_, _, _)
\* The sum of field f ("granted", "requested") of the events I of h.
SumOver(h, I, f) ==
    IF I = {} THEN 0
    ELSE LET i == CHOOSE x \in I : TRUE
         IN  h[i][f] + SumOver(h, I \ {i}, f)

\* The func_descr objects of call site S in the heap.
DescrsOf(S) == {d \in DOMAIN funcs : funcs[d].func = S}

(* ------------------------------ properties ---------------------------- *)

\* C1 (as claimed): after every event, for every granted value the applier
\* accepts, every call-site record has max_alloc >= current_alloc.
HighWaterAlloc ==
    \A d \in DOMAIN funcs : funcs[d].max_alloc >= funcs[d].current_alloc

\* C2: after every event, reuse of live pointers included, every call-site
\* record has max_requested >= current_requested.
HighWaterRequested ==
    \A d \in DOMAIN funcs : funcs[d].max_req >= funcs[d].current_req

\* C2 witness: a live pointer has been allocated again, a free has brought
\* a record's current_requested below its high-water mark.
HighWaterRequestedWitness ==
    /\ Collision(hist)
    /\ last.op = "free"
    /\ \E d \in DOMAIN funcs :
          /\ funcs[d].current_req > 0
          /\ funcs[d].max_req > funcs[d].current_req

\* C3: in a run with no allocate event for a still-live pointer, a call
\* site whose allocated pointers have all been freed since has
\* current_alloc = 0 and current_req = 0, whatever other call sites' events
\* lie in between.
Conservation ==
    ~Collision(hist) =>
        \A S \in Funcs :
            (\A i \in Outstanding(hist) : hist[i].site # S) =>
                \A d \in DescrsOf(S) :
                    /\ funcs[d].current_alloc = 0
                    /\ funcs[d].current_req = 0

\* C3 witness: a call site has allocated twice and seen every pointer
\* freed, while another call site still holds a pointer.
ConservationWitness ==
    /\ ~Collision(hist)
    /\ \E S, T \in Funcs :
          /\ S # T
          /\ Cardinality(AllocsOf(hist, S)) >= 1
          /\ \A i \in Outstanding(hist) : hist[i].site # S
          /\ \E i \in Outstanding(hist) : hist[i].site = T
          /\ \E i \in AllocsOf(hist, S), j \in AllocsOf(hist, T) : i < j
          /\ \E d \in DescrsOf(S) : funcs[d].total_alloc # 0

\* No ptr_descr of ptr is chained anywhere in the table.
NoRecordOf(ptr) ==
    \A h \in Buckets : \A i \in 1 .. Len(ptr_hash[h]) : ptr_hash[h][i].ptr # ptr

\* C4: a free-class event for a pointer that has no live record changes no
\* field of any call-site record and leaves the live-allocation table as it
\* was.
NoOpFree ==
    [][(/\ nevents' = nevents + 1
        /\ last'.op = "free"
        /\ NoRecordOf(last'.ptr))
       => UNCHANGED <<funcs, func_hash, func_count, ptr_hash>>]_vars

\* C4 witness: a pointer was allocated, freed, and freed again right after,
\* while another pointer is live.
NoOpFreeWitness ==
    /\ Len(hist) >= 4
    /\ LET n == Len(hist)
       IN  /\ IsFreeOf(hist, n, hist[n - 2].ptr)
           /\ IsFreeOf(hist, n - 1, hist[n - 2].ptr)
           /\ IsAlloc(hist, n - 2)
           /\ IsAlloc(hist, n - 3)
           /\ hist[n - 3].ptr # hist[n - 2].ptr
    /\ \E h \in Buckets : ptr_hash[h] # <<>>

\* The func_descr of call site S (there is one).
Stat(S) == funcs[CHOOSE d \in DOMAIN funcs : funcs[d].func = S]

\* In h, call site A allocated P at i, call site B allocated P at j with no
\* free of P in between, and nothing after j names P.
Overwritten(h, A, B, P, i, j) ==
    /\ i < j /\ j <= Len(h)
    /\ IsAlloc(h, i) /\ h[i].site = A /\ h[i].ptr = P
    /\ IsAlloc(h, j) /\ h[j].site = B /\ h[j].ptr = P
    /\ \A k \in (i + 1) .. (j - 1) : ~IsFreeOf(h, k, P)
    /\ \A k \in (j + 1) .. Len(h) : h[k].op = "other" \/ h[k].ptr # P

\* C5: after allocate(A,P,r1,g1); allocate(B,P,r2,g2) with no free of P in
\* between, free(P) takes g2/r2 off B's current counters and leaves A's as
\* they were; run from the start, the three events leave A's current
\* counters at g1/r1 and B's at 0, and further frees of P change neither.
ReuseOverwrite ==
    [][/\ \A A, B \in Funcs, P \in Ptrs :
             (/\ A # B
              /\ nevents' = nevents + 1
              /\ last'.op = "free" /\ last'.ptr = P
              /\ \E i, j \in 1 .. Len(hist) : Overwritten(hist, A, B, P, i, j))
             => LET j == CHOOSE j \in 1 .. Len(hist) :
                            \E i \in 1 .. Len(hist) :
                                Overwritten(hist, A, B, P, i, j)
                    a == CHOOSE d \in DOMAIN funcs : funcs[d].func = A
                    b == CHOOSE d \in DOMAIN funcs : funcs[d].func = B
                IN  /\ funcs'[b].current_alloc =
                         (funcs[b].current_alloc - hist[j].granted) % ULONG_MOD
                    /\ funcs'[b].current_req =
                         (funcs[b].current_req - hist[j].requested) % ULONG_MOD
                    /\ funcs'[a].current_alloc = funcs[a].current_alloc
                    /\ funcs'[a].current_req = funcs[a].current_req
       /\ \A A, B \in Funcs, P \in Ptrs :
             (/\ A # B
              /\ Len(hist') >= 3
              /\ Overwritten(SubSeq(hist', 1, 2), A, B, P, 1, 2)
              /\ \A k \in 3 .. Len(hist') : IsFreeOf(hist', k, P))
             => /\ Stat(A)'.current_alloc = hist'[1].granted % ULONG_MOD
                /\ Stat(A)'.current_req = hist'[1].requested
                /\ Stat(B)'.current_alloc = 0
                /\ Stat(B)'.current_req = 0
      ]_vars

\* C5 witness: allocate(A,P); allocate(B,P); free(P); free(P) has run.
ReuseOverwriteWitness ==
    /\ Len(hist) = 4
    /\ \E A, B \in Funcs, P \in Ptrs :
          /\ A # B
          /\ Overwritten(SubSeq(hist, 1, 2), A, B, P, 1, 2)
          /\ IsFreeOf(hist, 3, P) /\ IsFreeOf(hist, 4, P)
          /\ Stat(A).current_alloc # 0

Max(S) == CHOOSE x \in S : \A y \in S : x >= y

\* The replay oracle: lifetime sum, outstanding sum and peak of the
\* outstanding sum of field f of S's allocations, the peak taken over the
\* prefixes of h that hold an allocation of S.
OracleTotal(h, S, f) == SumOver(h, AllocsOf(h, S), f)
OracleCurrent(h, S, f) ==
    SumOver(h, {i \in Outstanding(h) : h[i].site = S}, f)
OracleMax(h, S, f) ==
    Max({OracleCurrent(SubSeq(h, 1, k), S, f) :
            k \in Min(AllocsOf(h, S)) .. Len(h)})

\* allocate(X,p,100,128); allocate(X,q,50,64); free(p)
Scenario(X, p, q) ==
    <<[op |-> "allocate", site |-> X, ptr |-> p, requested |-> 100,
       granted |-> 128],
      [op |-> "allocate", site |-> X, ptr |-> q, requested |-> 50,
       granted |-> 64],
      [op |-> "free", site |-> 0, ptr |-> p, requested |-> 0, granted |-> 0]>>

\* C6 (as claimed): over distinct (never reused while live) pointers, a
\* call site has a record exactly when it has allocated, and the record,
\* read as the report prints it, equals the replay oracle: totals the sums
\* over its allocate events, current the sums over its outstanding
\* allocations, max the peak of current over the prefixes.  The end-to-end
\* scenario gives 192/150, 64/50, 192/150 and the row waste 14, max_waste 42.
ReplayOracle ==
    /\ ~Collision(hist) =>
          \A S \in Funcs :
             IF AllocsOf(hist, S) = {}
             THEN DescrsOf(S) = {}
             ELSE /\ Cardinality(DescrsOf(S)) = 1
                  /\ ToLong(Stat(S).total_alloc) = OracleTotal(hist, S, "granted")
                  /\ ToLong(Stat(S).total_req) = OracleTotal(hist, S, "requested")
                  /\ ToLong(Stat(S).current_alloc) =
                        OracleCurrent(hist, S, "granted")
                  /\ ToLong(Stat(S).current_req) =
                        OracleCurrent(hist, S, "requested")
                  /\ ToLong(Stat(S).max_alloc) = OracleMax(hist, S, "granted")
                  /\ ToLong(Stat(S).max_req) = OracleMax(hist, S, "requested")
    /\ \A X \in Funcs, p, q \in Ptrs :
          (p # q /\ hist = Scenario(X, p, q)) =>
             /\ Stat(X).total_alloc = 192 /\ Stat(X).total_req = 150
             /\ Stat(X).current_alloc = 64 /\ Stat(X).current_req = 50
             /\ Stat(X).max_alloc = 192 /\ Stat(X).max_req = 150
             /\ pc = "done" =>
                   report = <<[func |-> X, waste |-> 14,
                               current_alloc |-> 64, current_req |-> 50,
                               total_alloc |-> 192, total_req |-> 150,
                               max_alloc |-> 192, max_req |-> 150,
                               max_waste |-> 42]>>

\* C7 (as claimed): the rows of the report are in descending order of the
\* signed waste they print, negative waste included.
ReportDescending ==
    pc = "done" =>
        \A i, j \in DOMAIN report :
            i < j => report[i].waste >= report[j].waste

\* C8: every row of the report has waste = current_alloc - current_req and
\* max_waste = max_alloc - max_req as the signed values printed, with no
\* clamping, also when the difference is negative.
WasteArithmetic ==
    pc = "done" =>
        \A i \in DOMAIN report :
            /\ report[i].waste =
                  report[i].current_alloc - report[i].current_req
            /\ report[i].max_waste = report[i].max_alloc - report[i].max_req

\* C8 witness: a report with a row of negative waste whose current_alloc is
\* not negative, and a row of positive waste.
WasteArithmeticWitness ==
    /\ pc = "done"
    /\ \E i \in DOMAIN report :
          /\ report[i].waste < 0
          /\ report[i].current_alloc >= 0
          /\ report[i].max_waste < 0
    /\ \E i \in DOMAIN report : report[i].waste > 0

\* C9 (as claimed): across every event, for every granted value the applier
\* accepts, no call site's total_alloc or total_req decreases, and a
\* free-class event leaves them as they were.
TotalsMonotone ==
    [][\A d \in DOMAIN funcs :
          /\ funcs'[d].total_alloc >= funcs[d].total_alloc
          /\ funcs'[d].total_req >= funcs[d].total_req
          /\ (nevents' = nevents + 1 /\ last'.op = "free") =>
                /\ funcs'[d].total_alloc = funcs[d].total_alloc
                /\ funcs'[d].total_req = funcs[d].total_req]_vars

\* C10: a record whose type equals none of the six type identifiers leaves
\* the call-site table and the live-allocation table as they were, and the
\* read loop goes on to the next record.
UnknownEvent ==
    [][(nevents' = nevents + 1 /\ ~last'.known)
       => /\ UNCHANGED <<funcs, func_hash, func_count, ptr_hash>>
          /\ pc' = "read"]_vars

\* C10 witness: an unknown record was read while the pointer its payload
\* would name was live, and an allocate event read after it was applied.
UnknownEventWitness ==
    /\ Len(hist) >= 3
    /\ LET n == Len(hist)
       IN  /\ IsAlloc(hist, n - 2) /\ hist[n - 2].ptr = 1
           /\ hist[n - 1].op = "other"
           /\ IsAlloc(hist, n) /\ hist[n].ptr # 1
           /\ ~NoRecordOf(hist[n].ptr)
           /\ ~NoRecordOf(1)

\* The places <<bucket, position>> of table ph that hold a ptr_descr of ptr.
RecordsOf(ph, ptr) ==
    {hi \in Buckets \X (1 .. MaxEvents + 1) :
        hi[2] <= Len(ph[hi[1]]) /\ ph[hi[1]][hi[2]].ptr = ptr}

\* The number of ptr_descr chained in table ph.
RECURSIVE LiveCount(_, _)
LiveCount(ph, h) ==
    IF h >= HASH_SIZE THEN 0 ELSE Len(ph[h]) + LiveCount(ph, h + 1)

\* C11: the live-allocation table never holds two records of one pointer;
\* an allocate event for a pointer that is live adds no record and leaves
\* that pointer's record with the new owner and the new sizes; after a free
\* event of P the table holds no record of P.
UniqueLive ==
    [][/\ \A P \in Ptrs : Cardinality(RecordsOf(ptr_hash', P)) <= 1
       /\ (/\ nevents' = nevents + 1
           /\ last'.op = "allocate"
           /\ ~NoRecordOf(last'.ptr))
          => LET e == hist'[Len(hist')]
             IN  /\ LiveCount(ptr_hash', 0) = LiveCount(ptr_hash, 0)
                 /\ \A hi \in RecordsOf(ptr_hash', e.ptr) :
                       LET pd == ptr_hash'[hi[1]][hi[2]]
                       IN  /\ pd.func \in DOMAIN funcs'
                           /\ funcs'[pd.func].func = e.site
                           /\ pd.alloc = e.granted % ULONG_MOD
                           /\ pd.req = e.requested
       /\ (nevents' = nevents + 1 /\ last'.op = "free")
          => RecordsOf(ptr_hash', last'.ptr) = {}]_vars

\* C11 witness: P was allocated, then Q, then P again by another call site
\* for other sizes while it was live, then P was freed; Q's record is there
\* and P's is not.
UniqueLiveWitness ==
    /\ Len(hist) = 4
    /\ IsAlloc(hist, 1) /\ IsAlloc(hist, 2) /\ IsAlloc(hist, 3)
    /\ hist[1].ptr # hist[2].ptr
    /\ hist[3].ptr = hist[1].ptr
    /\ hist[3].site # hist[1].site
    /\ hist[3].granted # hist[1].granted
    /\ IsFreeOf(hist, 4, hist[1].ptr)
    /\ RecordsOf(ptr_hash, hist[1].ptr) = {}
    /\ Cardinality(RecordsOf(ptr_hash, hist[2].ptr)) = 1

\* The func_descr pointers chained in table fh.
Chained(fh) == UNION {{fh[h][i] : i \in 1 .. Len(fh[h])} : h \in Buckets}

\* C12: no event unchains a call-site record or changes the call site it is
\* of; an allocate event naming a call site that has no record chains
\* exactly one new record, of that call site; an allocate event naming a
\* call site that has a record chains none and adds its sizes to that
\* record; no other event chains a record; so the table holds one record
\* for each call site that has allocated and none for any other.
AppendOnlySites ==
    [][/\ Chained(func_hash) \subseteq Chained(func_hash')
       /\ \A d \in Chained(func_hash) : funcs'[d].func = funcs[d].func
       /\ (nevents' = nevents + 1 /\ last'.op = "allocate")
          => LET e == hist'[Len(hist')]
                 old == {d \in Chained(func_hash) : funcs[d].func = e.site}
             IN  IF old = {}
                 THEN \E d \in Chained(func_hash') :
                         /\ Chained(func_hash') = Chained(func_hash) \cup {d}
                         /\ d \notin Chained(func_hash)
                         /\ funcs'[d].func = e.site
                 ELSE /\ Chained(func_hash') = Chained(func_hash)
                      /\ \A d \in old :
                            funcs'[d].total_req =
                               (funcs[d].total_req + e.requested) % ULONG_MOD
       /\ ~(nevents' = nevents + 1 /\ last'.op = "allocate")
          => Chained(func_hash') = Chained(func_hash)
       /\ \A S \in Funcs :
             Cardinality({d \in Chained(func_hash') : funcs'[d].func = S})
                = IF AllocsOf(hist', S) = {} THEN 0 ELSE 1
       /\ \A d \in Chained(func_hash') : funcs'[d].func \in Funcs]_vars

\* C12 witness: call site S allocated, then T, whose record went to the
\* head of the same chain, then S again, then a pointer was freed; the
\* table holds the two records.
AppendOnlySitesWitness ==
    /\ Len(hist) = 4
    /\ IsAlloc(hist, 1) /\ IsAlloc(hist, 2) /\ IsAlloc(hist, 3)
    /\ hist[2].site # hist[1].site
    /\ hist[3].site = hist[1].site
    /\ hist[4].op = "free"
    /\ Cardinality(Chained(func_hash)) = 2
    /\ \E h \in Buckets : Len(func_hash[h]) = 2

\* C13 (as claimed): the step in which zalloc() returns NULL, be it for a
\* func_descr, for a ptr_descr or for func_list, ends in die(); once
\* memory has failed no further event is applied and the report has no row.
FatalOnNoMemory ==
    [][/\ (nomem' /\ ~nomem) => pc' = "died"
       /\ nomem => (hist' = hist /\ tables' = tables)
       /\ nomem' => report' = <<>>]_vars

\* The ptr_descr contents table ph holds for ptr.
ContentsOf(ph, ptr) == {ph[hi[1]][hi[2]] : hi \in RecordsOf(ph, ptr)}

\* C14: an allocate event of call site S for pointer P leaves every
\* func_descr of another call site and every ptr_descr of another pointer as
\* it was, and changes only total_*, current_* and max_* of S's; a free
\* event of a live pointer P takes the alloc and req stored for P off
\* current_alloc and current_req of its recorded owner, changes no other
\* field of the owner and no other func_descr, unlinks P's ptr_descr and
\* leaves every other ptr_descr as it was.
EventFrame ==
    [][/\ (nevents' = nevents + 1 /\ last'.op = "allocate")
          => LET e == hist'[Len(hist')]
             IN  /\ \A d \in DOMAIN funcs :
                       IF funcs[d].func # e.site
                       THEN funcs'[d] = funcs[d]
                       ELSE funcs'[d] =
                               [funcs[d] EXCEPT
                                   !.total_alloc = funcs'[d].total_alloc,
                                   !.total_req = funcs'[d].total_req,
                                   !.current_alloc = funcs'[d].current_alloc,
                                   !.current_req = funcs'[d].current_req,
                                   !.max_alloc = funcs'[d].max_alloc,
                                   !.max_req = funcs'[d].max_req]
                 /\ \A d \in DOMAIN funcs' \ DOMAIN funcs :
                       funcs'[d].func = e.site
                 /\ \A Q \in Ptrs \ {e.ptr} :
                       ContentsOf(ptr_hash', Q) = ContentsOf(ptr_hash, Q)
       /\ (/\ nevents' = nevents + 1
           /\ last'.op = "free"
           /\ ~NoRecordOf(last'.ptr))
          => \A pd \in ContentsOf(ptr_hash, last'.ptr) :
                /\ DOMAIN funcs' = DOMAIN funcs
                /\ \A d \in DOMAIN funcs :
                      IF d # pd.func
                      THEN funcs'[d] = funcs[d]
                      ELSE funcs'[d] =
                              [funcs[d] EXCEPT
                                  !.current_alloc =
                                      (funcs[d].current_alloc - pd.alloc)
                                         % ULONG_MOD,
                                  !.current_req =
                                      (funcs[d].current_req - pd.req)
                                         % ULONG_MOD]
                /\ ContentsOf(ptr_hash', pd.ptr) = {}
                /\ \A Q \in Ptrs \ {pd.ptr} :
                      ContentsOf(ptr_hash', Q) = ContentsOf(ptr_hash, Q)
                /\ UNCHANGED <<func_hash, func_count>>]_vars

\* C14 witness: call site S allocated P, call site T allocated Q, then P
\* was freed: S's current counters are back at zero under totals that are
\* not, T's record and Q's live record are there.
EventFrameWitness ==
    /\ Len(hist) = 3
    /\ IsAlloc(hist, 1) /\ IsAlloc(hist, 2)
    /\ hist[1].site # hist[2].site
    /\ hist[1].ptr # hist[2].ptr
    /\ IsFreeOf(hist, 3, hist[1].ptr)
    /\ Stat(hist[1].site).current_req = 0
    /\ Stat(hist[1].site).total_req = hist[1].requested
    /\ Stat(hist[2].site).current_req = hist[2].requested
    /\ Cardinality(ContentsOf(ptr_hash, hist[2].ptr)) = 1

\* The last allocate event of h that names ptr (there is one).
LastAllocOf(h, ptr) == Max({i \in 1 .. Len(h) : IsAlloc(h, i) /\ h[i].ptr = ptr})

\* C15: the func of every ptr_descr in the live-allocation table points to
\* a func_descr chained in the call-site table, the one of the call site
\* that the most recent allocate event for that pointer named.
OwnerValid ==
    \A h \in Buckets : \A i \in 1 .. Len(ptr_hash[h]) :
        LET pd == ptr_hash[h][i]
        IN  /\ pd.func \in Chained(func_hash)
            /\ \E k \in 1 .. Len(hist) : IsAlloc(hist, k) /\ hist[k].ptr = pd.ptr
            /\ funcs[pd.func].func = hist[LastAllocOf(hist, pd.ptr)].site

\* C15 witness: P was allocated by S and, still live, by T; Q was last
\* allocated by S; both are live, P owned by T's record and Q by S's.
OwnerValidWitness ==
    \E P, Q \in Ptrs, S, T \in Funcs :
        /\ P # Q /\ S # T
        /\ Len(hist) = 4
        /\ \E i, j \in 1 .. 4 : Overwritten(hist, S, T, P, i, j)
        /\ \E i \in 1 .. 4 : IsAlloc(hist, i) /\ hist[i].ptr = Q
        /\ hist[LastAllocOf(hist, Q)].site = S
        /\ ContentsOf(ptr_hash, P) # {} /\ ContentsOf(ptr_hash, Q) # {}
        /\ \A pd \in ContentsOf(ptr_hash, P) : funcs[pd.func].func = T
        /\ \A pd \in ContentsOf(ptr_hash, Q) : funcs[pd.func].func = S

\* C16: across every event, allocate, free or unknown, no func_descr's
\* max_alloc or max_req (the unsigned long fields) becomes smaller, and a
\* free event leaves both as they were.
HighWaterMonotone ==
    [][\A d \in DOMAIN funcs :
          /\ funcs'[d].max_alloc >= funcs[d].max_alloc
          /\ funcs'[d].max_req >= funcs[d].max_req
          /\ (nevents' = nevents + 1 /\ last'.op = "free") =>
                /\ funcs'[d].max_alloc = funcs[d].max_alloc
                /\ funcs'[d].max_req = funcs[d].max_req]_vars

\* C16 witness: a call site allocated two pointers, then saw the second
\* freed: its marks stand above its current counters, which are not zero.
HighWaterMonotoneWitness ==
    /\ Len(hist) = 3
    /\ IsAlloc(hist, 1) /\ IsAlloc(hist, 2)
    /\ hist[1].site = hist[2].site
    /\ hist[1].ptr # hist[2].ptr
    /\ IsFreeOf(hist, 3, hist[2].ptr)
    /\ LET fd == Stat(hist[1].site)
       IN  /\ fd.max_req = hist[1].requested + hist[2].requested
           /\ fd.current_req = hist[1].requested
           /\ fd.max_alloc > fd.current_alloc
           /\ fd.current_alloc > 0

\* C17 (as claimed): a record whose type is not the id of a kind the trace
\* defines, 0 included, reaches no handler: it leaves the call-site table
\* and the live-allocation table as they were and the read loop goes on.
UnresolvedIgnored ==
    [][(nevents' = nevents + 1 /\ ~last'.resolved)
       => /\ UNCHANGED <<funcs, func_hash, func_count, ptr_hash>>
          /\ pc' = "read"]_vars

RECURSIVE PtrChains(_)
\* The ptr_descr of the live-allocation table, bucket after bucket.
PtrChains(h) == IF h >= HASH_SIZE THEN <<>> ELSE ptr_hash[h] \o PtrChains(h + 1)

\* The allocate events of h whose ptr_descr a later allocate event of the
\* same pointer overwrote: the next event of h that names the pointer is an
\* allocate.
OverwrittenAllocs(h) ==
    {i \in 1 .. Len(h) :
        /\ IsAlloc(h, i)
        /\ \E j \in (i + 1) .. Len(h) :
              /\ IsAlloc(h, j) /\ h[j].ptr = h[i].ptr
              /\ \A k \in (i + 1) .. (j - 1) :
                    ~IsAlloc(h, k) \/ h[k].ptr # h[i].ptr
              /\ \A k \in (i + 1) .. (j - 1) : ~IsFreeOf(h, k, h[i].ptr)}

\* C18: current_alloc (current_req) of every func_descr is the sum of the
\* alloc (req) of the ptr_descr it owns plus the granted (requested) sizes
\* of its call site's allocate events whose ptr_descr was overwritten, in
\* unsigned long arithmetic; with no allocate of a live pointer in the run
\* it is the sum over the ptr_descr it owns.
OutstandingBytes ==
    LET live == PtrChains(0)
    IN  \A d \in DOMAIN funcs :
           LET owned == {i \in 1 .. Len(live) : live[i].func = d}
               lost == {i \in OverwrittenAllocs(hist) :
                           hist[i].site = funcs[d].func}
           IN  /\ funcs[d].current_alloc =
                     (SumOver(live, owned, "alloc")
                         + SumOver(hist, lost, "granted")) % ULONG_MOD
               /\ funcs[d].current_req =
                     (SumOver(live, owned, "req")
                         + SumOver(hist, lost, "requested")) % ULONG_MOD
               /\ ~Collision(hist) =>
                     /\ funcs[d].current_alloc =
                           SumOver(live, owned, "alloc") % ULONG_MOD
                     /\ funcs[d].current_req =
                           SumOver(live, owned, "req") % ULONG_MOD

\* C18 witness: S allocated P, T allocated P while it was live, then P was
\* freed and allocated once more by T: S owns no ptr_descr and its current
\* counters hold the overwritten sizes, T's hold those of the ptr_descr it
\* owns.
OutstandingBytesWitness ==
    /\ Len(hist) = 4
    /\ Len(stale) = 1
    /\ \E S, T \in Funcs, P \in Ptrs :
          /\ S # T
          /\ Overwritten(SubSeq(hist, 1, 2), S, T, P, 1, 2)
          /\ IsFreeOf(hist, 3, P)
          /\ IsAlloc(hist, 4) /\ hist[4].site = T /\ hist[4].ptr = P
          /\ OverwrittenAllocs(hist) = {1}
          /\ stale[1].func \in DescrsOf(S)
          /\ Stat(S).current_req = hist[1].requested
          /\ Stat(T).current_req = hist[4].requested
          /\ \A pd \in ContentsOf(ptr_hash, P) : pd.func \in DescrsOf(T)

\* C19: func_count is the number of func_descr chained in the call-site
\* table; sort_list() never dies of "more funcs than expected" and never
\* leaves a slot of func_list empty: func_list holds each chained
\* func_descr once, and the report has one row for each.
CountAgreement ==
    /\ func_count = Len(Chains(0))
    /\ func_count = Cardinality(Chained(func_hash))
    /\ pc \notin {"died", "segv"}
    /\ pc \in {"sorted", "done"} =>
          /\ Len(func_list) = func_count
          /\ {func_list[i] : i \in 1 .. Len(func_list)} = Chained(func_hash)
          /\ \A i, j \in 1 .. Len(func_list) :
                func_list[i] = func_list[j] => i = j
    /\ pc = "done" =>
          /\ Len(report) = func_count
          /\ \A d \in Chained(func_hash) :
                Cardinality({i \in 1 .. Len(report) :
                                report[i].func = funcs[d].func}) = 1
    /\ pc # "done" => report = <<>>

\* C19 witness: two call sites allocated, one of them twice, and the report
\* was printed with its two rows.
CountAgreementWitness ==
    /\ pc = "done"
    /\ Len(report) = 2
    /\ func_count = 2
    /\ \E S \in Funcs : Cardinality(AllocsOf(hist, S)) >= 2
    /\ \E h \in Buckets : Len(func_hash[h]) = 2

\* No allocate event of h has a requested or a granted size below zero.
NaturalSizes(h) ==
    \A i \in 1 .. Len(h) : h[i].requested >= 0 /\ h[i].granted >= 0

\* C20: in a run whose requested and granted sizes are not negative, every
\* func_descr has total_alloc >= max_alloc >= current_alloc and
\* total_req >= max_req >= current_req.
TotalsBoundPeaks ==
    NaturalSizes(hist) =>
        \A d \in DOMAIN funcs :
            /\ funcs[d].total_alloc >= funcs[d].max_alloc
            /\ funcs[d].max_alloc >= funcs[d].current_alloc
            /\ funcs[d].total_req >= funcs[d].max_req
            /\ funcs[d].max_req >= funcs[d].current_req

\* C20 witness: a call site allocated, saw the pointer freed and allocated
\* less: its totals stand above its marks and its marks above its current
\* counters, which are not zero.
TotalsBoundPeaksWitness ==
    /\ NaturalSizes(hist)
    /\ Len(hist) = 3
    /\ IsAlloc(hist, 1) /\ IsFreeOf(hist, 2, hist[1].ptr) /\ IsAlloc(hist, 3)
    /\ hist[3].site = hist[1].site
    /\ LET fd == Stat(hist[1].site)
       IN  /\ fd.total_alloc > fd.max_alloc
           /\ fd.max_alloc > fd.current_alloc
           /\ fd.current_alloc > 0
           /\ fd.total_req > fd.max_req
           /\ fd.max_req > fd.current_req
           /\ fd.current_req > 0

====
